---- MODULE Spec2Model ----
(***************************************************************************)
(* A model of the aix pipeline (src/aix): the workspace prober             *)
(* (api.check_api_availability), the generation client                     *)
(* (api.query_anythingllm, codegen.generate_code), the dataset fetcher     *)
(* (dataset.download_dataset), the RAM guard (utils.check_ram_usage) and   *)
(* the workflow that drives them (main.main).                              *)
(*                                                                         *)
(* Every component is a small state machine with its own program counter.  *)
(* SpecProbe, SpecFetch, SpecQuery and SpecGen run one component alone on *)
(* inputs drawn from bounded sets; SpecMain runs main(), which calls the   *)
(* same component actions in the order of main.py. SpecSanitize and        *)
(* SpecRam apply the pure functions clean_code_output and check_ram_usage  *)
(* to inputs drawn from bounded sets.                                      *)
(***************************************************************************)
EXTENDS Integers, Sequences, FiniteSets, TLC

VARIABLES
    \* ---- check_api_availability (api.py:7-35)
    p_pc,          \* "idle" | "docs" | "workspaces" | "done"
    p_workspace,   \* the workspace argument
    p_docs,        \* outcome of GET /api/docs ("none" before it is sent)
    p_ws,          \* outcome of GET /api/v1/workspaces ("none" before it is sent)
    p_body,        \* body of the workspaces response
    p_reqs,        \* the requests this call has sent, in order
    p_ret,         \* what the call returned or raised
    \* ---- download_dataset (dataset.py:7-23)
    f_pc,          \* "idle" | "loop" | "done"
    f_urls,        \* dataset_urls, a sequence of URL names
    f_retries,     \* the retries argument
    f_url,         \* index of the URL of the outer loop (1-based)
    f_attempt,     \* the inner loop's attempt variable (0-based)
    f_log,         \* urlretrieve attempts and sleeps, in order
    f_ret,         \* "none" | "True" | "False"
    \* ---- query_anythingllm (api.py:37-90) and generate_code (codegen.py:37-50)
    g_pc,          \* "idle" | "call" | "query" | "done"
    g_args,        \* generate_code's arguments
    g_ram,         \* the RAM sample the guard read (NoRam: not sampled)
    g_ret,         \* what generate_code returned or raised
    q_pc,          \* "idle" | "call" | "done"
    q_args,        \* query_anythingllm's arguments
    q_payload,     \* the JSON payload of the POST
    q_resp,        \* the response to the POST
    q_posts,       \* number of POSTs this call has sent
    q_ret,         \* what query_anythingllm returned or raised
    \* ---- main (main.py:16-209)
    m_pc,          \* position in main()
    m_args,        \* parsed command line and environment
    m_mode,        \* args.mode (main may downgrade it)
    m_config,      \* workspace_config
    m_dataset,     \* dataset_success ("none" before it is set)
    m_repo,        \* whether the directory REPO_PATH exists
    m_commits,     \* commits made in this run, in order
    m_files,       \* files written in this run
    m_sent,        \* generation requests sent in this run, in order
    m_trace,       \* the stages main has gone through, in order
    m_exit,        \* process exit status ("none" while running)
    \* ---- clean_code_output (codegen.py:9-26), called on its own
    s_pc,          \* "idle" | "call" | "done" | "again"
    s_text,        \* the text argument
    s_language,    \* the language argument
    s_out,         \* what the call returned
    s_again,       \* what a second call, on s_out, returned
    \* ---- check_ram_usage (utils.py:7-15), called on its own
    r_pc,          \* "idle" | "call" | "done"
    r_used,        \* psutil.virtual_memory().used
    r_total,       \* psutil.virtual_memory().total, in GiB
    r_warned,      \* whether the warning was logged
    r_ret          \* "none" | "True" | "False"

probeVars == <<p_pc, p_workspace, p_docs, p_ws, p_body, p_reqs, p_ret>>
fetchVars == <<f_pc, f_urls, f_retries, f_url, f_attempt, f_log, f_ret>>
queryVars == <<q_pc, q_args, q_payload, q_resp, q_posts, q_ret>>
genVars   == <<g_pc, g_args, g_ram, g_ret>>
mainVars  == <<m_pc, m_args, m_mode, m_config, m_dataset, m_repo, m_commits,
               m_files, m_sent, m_trace, m_exit>>
sanVars   == <<s_pc, s_text, s_language, s_out, s_again>>
ramVars   == <<r_pc, r_used, r_total, r_warned, r_ret>>
vars == <<probeVars, fetchVars, queryVars, genVars, mainVars, sanVars, ramVars>>

(***************************************************************************)
(* Values                                                                  *)
(***************************************************************************)
\* Python None; also what dict.get returns for an absent key.
None == "None"
\* A key that is absent from a JSON object (d["k"] raises KeyError).
NoKey == "<absent>"
\* No exception.
NoExc == "<no exception>"

\* Python truthiness of an optional string: None and "" are falsy.
Truthy(v) == v /= None /\ v /= NoKey /\ v /= ""

\* dict.get(key): None for an absent key.
Get(v) == IF v = NoKey THEN None ELSE v

\* sequence helpers
Range(s) == {s[i] : i \in 1..Len(s)}
SeqsUpTo(S, n) == UNION {[1..k -> S] : k \in 0..n}

(***************************************************************************)
(* Bounds of the model                                                     *)
(***************************************************************************)
MaxWorkspaces == 2   \* records in the backend's workspaces array
MaxUrls == 2         \* candidate URLs given to download_dataset
MaxRetries == 3      \* largest retries argument given to download_dataset

(***************************************************************************)
(* HTTP through the requests library                                       *)
(***************************************************************************)
\* What one requests.get / requests.post followed by raise_for_status() can
\* do: "ok" is a 2xx response (raise_for_status passes), "http_error" a
\* 4xx/5xx response (raise_for_status raises HTTPError), "conn_error" and
\* "timeout" are failures of the transport (raised by the request itself).
HttpOutcomes == {"ok", "http_error", "conn_error", "timeout"}

RequestExc(o) ==
    CASE o = "ok"         -> NoExc
      [] o = "http_error" -> "HTTPError"
      [] o = "conn_error" -> "ConnectionError"
      [] o = "timeout"    -> "Timeout"

\* A plausible slip: catching only connection failures.
IsRequestException_ConnOnly(exc) == exc \in {"ConnectionError", "Timeout"}

\* except requests.exceptions.RequestException: HTTPError, ConnectionError,
\* Timeout and (requests >= 2.27, which api.py:85 presupposes) JSONDecodeError.
IsRequestException(exc) ==
    exc \in {"HTTPError", "ConnectionError", "Timeout", "JSONDecodeError"}

(***************************************************************************)
(* check_api_availability                                                  *)
(***************************************************************************)
Slugs == {"dev", "prod"}

\* WorkspaceConfig, or None (isNone).
Configs == [isNone : {FALSE}, chat_model : {None, "B"}, agent_model : {None, "G"},
            agent_provider : {None, "P"}]
NoConfig == [isNone |-> TRUE, chat_model |-> None, agent_model |-> None,
             agent_provider |-> None]

\* One record of the workspaces array; slug = NoKey is a record without a slug.
WsRecords == [slug : Slugs \cup {NoKey}, chatModel : {None, "B"},
              agentModel : {None, "G"}, agentProvider : {None, "P"}]

\* The body of the workspaces response: not JSON at all, JSON that is not an
\* object (a list, a string), or an object whose "workspaces" is the given array
\* (an object without the key reads as the empty array, api.py:17).
Bodies ==
    {[kind |-> k, workspaces |-> <<>>] : k \in {"not_json", "not_object"}}
    \cup {[kind |-> "object", workspaces |-> w] : w \in SeqsUpTo(WsRecords, MaxWorkspaces)}
NoBody == [kind |-> "none", workspaces |-> <<>>]

DocsRequest == [method |-> "GET", path |-> "/api/docs", bearer |-> FALSE]
WorkspacesRequest == [method |-> "GET", path |-> "/api/v1/workspaces", bearer |-> TRUE]

NoRet == [kind |-> "none", flag |-> FALSE, config |-> NoConfig, exc |-> NoExc]
Returned(flag, config) == [kind |-> "return", flag |-> flag, config |-> config, exc |-> NoExc]
Raised(exc) == [kind |-> "raise", flag |-> FALSE, config |-> NoConfig, exc |-> exc]

\* The except clause of check_api_availability (api.py:33-35): a
\* RequestException becomes (False, None), anything else propagates.
ProbeExcept(exc) == IF IsRequestException(exc) THEN Returned(FALSE, NoConfig) ELSE Raised(exc)

\* api.py:18, [ws["slug"] for ws in workspaces]: KeyError on a record without slug.
SlugsRaise(workspaces) == \E i \in 1..Len(workspaces) : workspaces[i].slug = NoKey
WorkspaceSlugs(workspaces) == {workspaces[i].slug : i \in 1..Len(workspaces)}

\* api.py:24-31, the first record whose slug is the workspace.
FirstMatch(workspaces, workspace) ==
    CHOOSE i \in 1..Len(workspaces) :
        /\ workspaces[i].slug = workspace
        /\ \A j \in 1..(i - 1) : workspaces[j].slug /= workspace

ConfigOf(ws) == [isNone |-> FALSE, chat_model |-> Get(ws.chatModel),
                 agent_model |-> Get(ws.agentModel),
                 agent_provider |-> Get(ws.agentProvider)]

\* api.py:17-32, what the call does with a 2xx workspaces response.
ReadWorkspaces(body, workspace) ==
    IF body.kind = "not_json" THEN ProbeExcept("JSONDecodeError")
    ELSE IF body.kind = "not_object" THEN ProbeExcept("AttributeError")
    ELSE IF SlugsRaise(body.workspaces) THEN ProbeExcept("KeyError")
    ELSE IF workspace \notin WorkspaceSlugs(body.workspaces) THEN Returned(FALSE, NoConfig)
    ELSE Returned(TRUE, ConfigOf(body.workspaces[FirstMatch(body.workspaces, workspace)]))

\* A plausible slip: no raise_for_status() after the liveness probe.
AfterDocs_NoRaiseForStatus(o) == IF o \in {"ok", "http_error"} THEN NoExc ELSE RequestExc(o)

\* api.py:10-11, the exception the liveness probe ends with.
AfterDocs(o) == RequestExc(o)

\* api.py:10-12: GET /api/docs, raise_for_status.
ProbeDocs ==
    /\ p_pc = "docs"
    /\ \E o \in HttpOutcomes :
        /\ p_docs' = o
        /\ p_reqs' = Append(p_reqs, DocsRequest)
        /\ IF AfterDocs(o) = NoExc
           THEN p_pc' = "workspaces" /\ p_ret' = p_ret
           ELSE p_pc' = "done" /\ p_ret' = ProbeExcept(AfterDocs(o))
    /\ UNCHANGED <<p_workspace, p_ws, p_body>>
    /\ UNCHANGED <<fetchVars, queryVars, genVars, mainVars, sanVars, ramVars>>

\* api.py:14-32: GET /api/v1/workspaces with the bearer token, raise_for_status,
\* then the lookup of the workspace.
ProbeWorkspaces ==
    /\ p_pc = "workspaces"
    /\ \E o \in HttpOutcomes, b \in Bodies :
        /\ (o /= "ok" => b.kind = "not_json")   \* the body of a failed request is not read
        /\ p_ws' = o
        /\ p_body' = b
        /\ p_reqs' = Append(p_reqs, WorkspacesRequest)
        /\ p_ret' = IF RequestExc(o) = NoExc THEN ReadWorkspaces(b, p_workspace)
                    ELSE ProbeExcept(RequestExc(o))
    /\ p_pc' = "done"
    /\ UNCHANGED <<p_workspace, p_docs>>
    /\ UNCHANGED <<fetchVars, queryVars, genVars, mainVars, sanVars, ramVars>>

ProbeIdle ==
    /\ p_pc = "idle" /\ p_workspace = "dev" /\ p_docs = "none" /\ p_ws = "none"
    /\ p_body = NoBody /\ p_reqs = <<>> /\ p_ret = NoRet

ProbeCalled ==
    /\ p_pc = "docs" /\ p_workspace \in Slugs /\ p_docs = "none" /\ p_ws = "none"
    /\ p_body = NoBody /\ p_reqs = <<>> /\ p_ret = NoRet

NextProbe == ProbeDocs \/ ProbeWorkspaces

(***************************************************************************)
(* download_dataset                                                        *)
(***************************************************************************)
DefaultRetries == 3   \* retries=3
DefaultDelay == 2     \* delay=2

UrlNames == {"u1", "u2"}

\* What one urllib.request.urlretrieve(url, output_path) can do: succeed, raise
\* urllib.error.HTTPError (a 404 or a 503 answer), or raise something that is not
\* an HTTPError, here a timeout (socket.timeout, or URLError around it).
FetchOutcomes == {"ok", "http_404", "http_503", "timeout"}

\* except urllib.error.HTTPError (dataset.py:15)
IsHTTPError(o) == o \in {"http_404", "http_503"}

Try(i, o) == [ev |-> "try", url |-> i, outcome |-> o]
Sleep(i) == [ev |-> "sleep", url |-> i, outcome |-> "none"]

\* A plausible slip: break instead of return True after a download.
AttemptEffect_BreakOnSuccess(o, attempt, retries) ==
    IF o = "ok" THEN "break"
    ELSE IF IsHTTPError(o) THEN (IF attempt < retries - 1 THEN "sleep" ELSE "continue")
    ELSE "break"

\* A plausible slip: the sleep is not guarded, it also follows the last attempt.
AttemptEffect_SleepAfterLast(o, attempt, retries) ==
    IF o = "ok" THEN "return"
    ELSE IF IsHTTPError(o) THEN "sleep"
    ELSE "break"

\* A plausible slip: every failure is retried like an HTTP error.
AttemptEffect_RetryAll(o, attempt, retries) ==
    IF o = "ok" THEN "return"
    ELSE IF attempt < retries - 1 THEN "sleep" ELSE "continue"

\* dataset.py:11-21, the body of the inner loop for an attempt that ended as o.
AttemptEffect(o, attempt, retries) ==
    IF o = "ok" THEN "return"
    ELSE IF IsHTTPError(o) THEN (IF attempt < retries - 1 THEN "sleep" ELSE "continue")
    ELSE "break"

\* dataset.py:10-21: one pass of `for attempt in range(retries)` on the current URL.
FetchAttempt ==
    /\ f_pc = "loop" /\ f_url <= Len(f_urls) /\ f_attempt < f_retries
    /\ \E o \in FetchOutcomes :
        LET eff == AttemptEffect(o, f_attempt, f_retries) IN
        /\ f_log' = IF eff = "sleep"
                    THEN f_log \o <<Try(f_url, o), Sleep(f_url)>>
                    ELSE Append(f_log, Try(f_url, o))
        /\ f_pc' = IF eff = "return" THEN "done" ELSE "loop"
        /\ f_ret' = IF eff = "return" THEN "True" ELSE f_ret
        /\ f_url' = IF eff = "break" THEN f_url + 1 ELSE f_url
        /\ f_attempt' = IF eff = "break" THEN 0
                        ELSE IF eff = "return" THEN f_attempt
                        ELSE f_attempt + 1
    /\ UNCHANGED <<f_urls, f_retries>>
    /\ UNCHANGED <<probeVars, queryVars, genVars, mainVars, sanVars, ramVars>>

\* dataset.py:10: range(retries) is used up, the outer loop takes the next URL.
FetchNextUrl ==
    /\ f_pc = "loop" /\ f_url <= Len(f_urls) /\ f_attempt >= f_retries
    /\ f_url' = f_url + 1
    /\ f_attempt' = 0
    /\ UNCHANGED <<f_pc, f_urls, f_retries, f_log, f_ret>>
    /\ UNCHANGED <<probeVars, queryVars, genVars, mainVars, sanVars, ramVars>>

\* dataset.py:22-23: the outer loop is over, return False.
FetchGiveUp ==
    /\ f_pc = "loop" /\ f_url > Len(f_urls)
    /\ f_pc' = "done"
    /\ f_ret' = "False"
    /\ UNCHANGED <<f_urls, f_retries, f_url, f_attempt, f_log>>
    /\ UNCHANGED <<probeVars, queryVars, genVars, mainVars, sanVars, ramVars>>

FetchIdle ==
    /\ f_pc = "idle" /\ f_urls = <<>> /\ f_retries = DefaultRetries
    /\ f_url = 1 /\ f_attempt = 0 /\ f_log = <<>> /\ f_ret = "none"

FetchCalled ==
    /\ f_pc = "loop" /\ f_urls \in SeqsUpTo(UrlNames, MaxUrls)
    /\ f_retries \in 0..MaxRetries
    /\ f_url = 1 /\ f_attempt = 0 /\ f_log = <<>> /\ f_ret = "none"

NextFetch == FetchAttempt \/ FetchNextUrl \/ FetchGiveUp

(***************************************************************************)
(* clean_code_output                                                       *)
(***************************************************************************)
\* A text is a sequence of characters. The characters of the model:
\*   "F"  a code fence, the three backquotes ```
\*   "T"  one of the fence tags python, julia, html, javascript
\*   "\n" a line break, " " a space
\*   "#", "*", "-"  the markdown markers
\*   "N"  one of the words example, note, output, certainly, below, here (any case)
\*   "x"  any other character
NL == "\n"
Whitespace == {" ", NL}

Min(S) == CHOOSE x \in S : \A y \in S : x <= y

RECURSIVE LStrip(_)
LStrip(s) == IF s /= <<>> /\ Head(s) \in Whitespace THEN LStrip(Tail(s)) ELSE s

RECURSIVE RStrip(_)
RStrip(s) ==
    IF s /= <<>> /\ s[Len(s)] \in Whitespace THEN RStrip(SubSeq(s, 1, Len(s) - 1)) ELSE s

\* str.strip()
Strip(s) == LStrip(RStrip(s))

\* Length of an opening fence at the head of s: ```tag\n (3), ```\n (2), or 0.
OpenFence(s) ==
    IF Len(s) >= 3 /\ s[1] = "F" /\ s[2] = "T" /\ s[3] = NL THEN 3
    ELSE IF Len(s) >= 2 /\ s[1] = "F" /\ s[2] = NL THEN 2
    ELSE 0

\* codegen.py:11, re.sub(r'```(?:python|julia|html|javascript)?\n([\s\S]*?)\n```',
\* r'\1', text): every fenced block, left to right, is replaced by its interior;
\* the lazy interior ends at the first \n``` after the opening fence.
RECURSIVE UnwrapFences(_)
UnwrapFences(s) ==
    IF s = <<>> THEN <<>>
    ELSE LET o == OpenFence(s)
             closes == {j \in (o + 1)..(Len(s) - 1) : s[j] = NL /\ s[j + 1] = "F"}
         IN  IF o > 0 /\ closes /= {}
             THEN SubSeq(s, o + 1, Min(closes) - 1)
                      \o UnwrapFences(SubSeq(s, Min(closes) + 2, Len(s)))
             ELSE <<Head(s)>> \o UnwrapFences(Tail(s))

\* codegen.py:12, re.sub(r'```[\s\S]*', '', code): cut from the first fence left.
CutFromFence(s) ==
    LET fences == {j \in 1..Len(s) : s[j] = "F"}
    IN  IF fences = {} THEN s ELSE SubSeq(s, 1, Min(fences) - 1)

\* str.splitlines()
RECURSIVE SplitLines(_)
SplitLines(s) ==
    IF s = <<>> THEN <<>>
    ELSE LET breaks == {j \in 1..Len(s) : s[j] = NL}
         IN  IF breaks = {} THEN <<s>>
             ELSE <<SubSeq(s, 1, Min(breaks) - 1)>>
                      \o SplitLines(SubSeq(s, Min(breaks) + 1, Len(s)))

StartsWith(line, prefix) ==
    Len(line) >= Len(prefix) /\ SubSeq(line, 1, Len(prefix)) = prefix

\* A plausible slip: every line that opens with "#" is taken for a heading.
FilteredLine_AnyHash(line) ==
    \/ StartsWith(line, <<"#">>)
    \/ StartsWith(line, <<"*">>)
    \/ StartsWith(line, <<"-">>)
    \/ StartsWith(line, <<"N">>)

\* codegen.py:20, the prefixes of a dropped line.
FilteredLine(line) ==
    \/ StartsWith(line, <<"#", " ">>)
    \/ StartsWith(line, <<"#", "#">>)
    \/ StartsWith(line, <<"*">>)
    \/ StartsWith(line, <<"-">>)
    \/ StartsWith(line, <<"N">>)

\* codegen.py:16-25, the lines that are kept, each without trailing whitespace.
RECURSIVE KeepLines(_)
KeepLines(lines) ==
    IF lines = <<>> THEN <<>>
    ELSE LET line == RStrip(Head(lines))
         IN  IF line = <<>> \/ FilteredLine(line) \/ LStrip(line) = <<>>
             THEN KeepLines(Tail(lines))
             ELSE <<line>> \o KeepLines(Tail(lines))

\* '\n'.join(lines)
RECURSIVE JoinLines(_)
JoinLines(lines) ==
    IF lines = <<>> THEN <<>>
    ELSE IF Len(lines) = 1 THEN lines[1]
    ELSE lines[1] \o <<NL>> \o JoinLines(Tail(lines))

\* codegen.py:9-26; the language argument is not used.
clean_code_output(text, language) ==
    Strip(JoinLines(KeepLines(SplitLines(Strip(CutFromFence(UnwrapFences(text)))))))

(***************************************************************************)
(* query_anythingllm                                                       *)
(***************************************************************************)
Modes == {"chat", "agent"}

\* The text an answer carries: a fenced block followed by a line of prose.
AnswerTexts == {<<"F", "T", NL, "x", NL, "F", NL, "N", "x">>}
NoText == <<>>

\* The response to the chat POST. status is the outcome of requests.post and
\* raise_for_status; json says what response.json() gives: "not_json" raises
\* JSONDecodeError, "not_object" is JSON that is no object (a list), "object" is
\* a JSON object with the fields below. NoKey is an absent key, None a JSON null.
\* textResponse: NoKey, None (null) or "text", the string answerText.
\* metrics: NoKey, None (null) or "object", whose "model" is metricsModel.
ObjectResponses ==
    [status : {"ok"}, json : {"object"},
     error : {NoKey, "", "boom"},
     textResponse : {NoKey, None, "text"},
     answerText : AnswerTexts \cup {NoText},
     metrics : {NoKey, None, "object"},
     metricsModel : {NoKey, "", "A"},
     chatModel : {NoKey, "", "B2"}]

BlankResponse(status, json) ==
    [status |-> status, json |-> json, error |-> NoKey, textResponse |-> NoKey,
     answerText |-> NoText, metrics |-> NoKey, metricsModel |-> NoKey, chatModel |-> NoKey]

\* The responses the model draws from. Fields that cannot be read are left
\* blank: the body of a failed request, the model names of a response that
\* carries no answer; the responses with an error field carry no model names.
Responses ==
    {BlankResponse(o, "none") : o \in HttpOutcomes \ {"ok"}}
    \cup {BlankResponse("ok", j) : j \in {"not_json", "not_object"}}
    \cup {r \in ObjectResponses :
            /\ r.metrics /= "object" => r.metricsModel = NoKey
            /\ IF r.textResponse = "text" THEN r.answerText \in AnswerTexts
               ELSE r.answerText = NoText
            /\ (r.error /= NoKey \/ r.textResponse /= "text")
                   => (r.metrics = NoKey /\ r.chatModel = NoKey)}
NoResponse == BlankResponse("none", "none")

QueryArgs ==
    [mode : Modes, model : {None, "", "C"},
     workspace_config : {NoConfig} \cup
        [isNone : {FALSE}, chat_model : {None, "", "B"}, agent_model : {None, "", "G"},
         agent_provider : {None}],
     chat_model : {None, "X"}, agent_model : {None, "Y"}]
NoQueryArgs ==
    [mode |-> "chat", model |-> None, workspace_config |-> NoConfig,
     chat_model |-> None, agent_model |-> None]

NoPayload == [message |-> "none", mode |-> "none", model |-> NoKey]

\* api.py:44-54, the payload; model = NoKey: the field is left out.
Payload(args) ==
    [message |-> "prompt", mode |-> args.mode,
     model |-> IF Truthy(args.model) THEN args.model
               ELSE IF args.mode = "chat" /\ Truthy(args.chat_model) THEN args.chat_model
               ELSE IF args.mode = "agent" /\ Truthy(args.agent_model) THEN args.agent_model
               ELSE NoKey]

QNoRet == [kind |-> "none", text |-> NoText, model_used |-> None, exc |-> NoExc]
QReturned(text, model_used) ==
    [kind |-> "return", text |-> text, model_used |-> model_used, exc |-> NoExc]
QRaised(exc) == [kind |-> "raise", text |-> NoText, model_used |-> None, exc |-> exc]

\* workspace_config.get("agent_model" if mode == "agent" else "chat_model")
ModeDefault(config, mode) ==
    IF mode = "agent" THEN config.agent_model ELSE config.chat_model

\* A plausible slip: the requested model ranked above the workspace default.
ModelUsed_ExplicitFirst(args, resp) ==
    LET m1 == IF resp.metrics = "object" THEN Get(resp.metricsModel) ELSE None
        m2 == IF ~Truthy(m1) THEN Get(resp.chatModel) ELSE m1
        m3 == IF ~Truthy(m2) /\ Truthy(args.model) THEN args.model ELSE m2
        m4 == IF ~Truthy(m3) /\ ~args.workspace_config.isNone
              THEN ModeDefault(args.workspace_config, args.mode) ELSE m3
    IN  IF ~Truthy(m4) THEN "unknown" ELSE m4

\* A plausible slip: the chain ends with the requested model, without `or "unknown"`.
ModelUsed_NoSentinel(args, resp) ==
    LET m1 == IF resp.metrics = "object" THEN Get(resp.metricsModel) ELSE None
        m2 == IF ~Truthy(m1) THEN Get(resp.chatModel) ELSE m1
        m3 == IF ~Truthy(m2) /\ ~args.workspace_config.isNone
              THEN ModeDefault(args.workspace_config, args.mode) ELSE m2
    IN  IF ~Truthy(m3) THEN args.model ELSE m3

\* api.py:72-78, model_used, one assignment after the other.
ModelUsed(args, resp) ==
    LET m1 == IF resp.metrics = "object" THEN Get(resp.metricsModel) ELSE None
        m2 == IF ~Truthy(m1) THEN Get(resp.chatModel) ELSE m1
        m3 == IF ~Truthy(m2) /\ ~args.workspace_config.isNone
              THEN ModeDefault(args.workspace_config, args.mode) ELSE m2
    IN  IF ~Truthy(m3) THEN (IF Truthy(args.model) THEN args.model ELSE "unknown") ELSE m3

\* A plausible slip: the answer is looked at before the error field.
ReadResponse_TextFirst(args, resp) ==
    IF RequestExc(resp.status) /= NoExc THEN QRaised(RequestExc(resp.status))
    ELSE IF resp.json = "not_json" THEN QRaised("JSONDecodeError")
    ELSE IF resp.json = "not_object" THEN QRaised("ValueError: No valid response")
    ELSE IF resp.textResponse \in {NoKey, None} THEN QRaised("ValueError: No valid response")
    ELSE IF Truthy(resp.error) THEN QRaised("ValueError: API error")
    ELSE IF resp.metrics = None THEN QRaised("AttributeError")
    ELSE QReturned(resp.answerText, ModelUsed(args, resp))

\* api.py:58-90: raise_for_status, response.json(), the error and textResponse
\* checks, then the attribution; every except clause re-raises.
ReadResponse(args, resp) ==
    IF RequestExc(resp.status) /= NoExc THEN QRaised(RequestExc(resp.status))
    ELSE IF resp.json = "not_json" THEN QRaised("JSONDecodeError")
    ELSE IF resp.json = "not_object" THEN QRaised("ValueError: No valid response")
    ELSE IF Truthy(resp.error) THEN QRaised("ValueError: API error")
    ELSE IF resp.textResponse \in {NoKey, None} THEN QRaised("ValueError: No valid response")
    ELSE IF resp.metrics = None THEN QRaised("AttributeError")
    ELSE QReturned(resp.answerText, ModelUsed(args, resp))

\* api.py:37-90: build the payload, POST it once, read the response.
QueryAnythingLLM ==
    /\ q_pc = "call"
    /\ \E resp \in Responses :
        /\ q_payload' = Payload(q_args)
        /\ q_posts' = q_posts + 1
        /\ q_resp' = resp
        /\ q_ret' = ReadResponse(q_args, resp)
    /\ q_pc' = "done"
    /\ UNCHANGED q_args
    /\ UNCHANGED <<probeVars, fetchVars, genVars, mainVars, sanVars, ramVars>>

QueryIdle ==
    /\ q_pc = "idle" /\ q_args = NoQueryArgs /\ q_payload = NoPayload
    /\ q_resp = NoResponse /\ q_posts = 0 /\ q_ret = QNoRet

QueryCalled ==
    /\ q_pc = "call" /\ q_args \in QueryArgs /\ q_payload = NoPayload
    /\ q_resp = NoResponse /\ q_posts = 0 /\ q_ret = QNoRet

NextQuery == QueryAnythingLLM

(***************************************************************************)
(* check_ram_usage                                                         *)
(***************************************************************************)
RamThresholdGB == 50      \* threshold = 50
GiB == 1073741824         \* 1024 ** 3

\* psutil.virtual_memory().used, in bytes, written gb * GiB + rem with
\* 0 <= rem < GiB; used_ram = used / (1024 ** 3) is then gb + rem / GiB.
RamSamples ==
    {[gb |-> RamThresholdGB - 1, rem |-> GiB - 1],
     [gb |-> RamThresholdGB, rem |-> 0],
     [gb |-> RamThresholdGB, rem |-> 1]}
NoRam == [gb |-> 0 - 1, rem |-> 0]

\* utils.py:12, used_ram > threshold: the warning is logged.
RamWarns(ram) == ram.gb > RamThresholdGB \/ (ram.gb = RamThresholdGB /\ ram.rem > 0)

\* A plausible slip: `<=` for `<`.
CheckRamUsage_AtMost(ram) ==
    ram.gb < RamThresholdGB \/ (ram.gb = RamThresholdGB /\ ram.rem = 0)

\* utils.py:15, return used_ram < threshold.
CheckRamUsage(ram) == ram.gb < RamThresholdGB

(***************************************************************************)
(* generate_code                                                           *)
(***************************************************************************)
Languages == {"python", "julia", "html"}
GenLanguages == Languages \cup {"javascript"}

GenArgs ==
    [mode : Modes, language : GenLanguages, model : {None, "C"},
     workspace_config : {NoConfig} \cup Configs,
     chat_model : {None}, agent_model : {None}]
NoGenArgs ==
    [mode |-> "chat", language |-> "python", model |-> None,
     workspace_config |-> NoConfig, chat_model |-> None, agent_model |-> None]

\* formatted: the text went through autopep8.fix_code(text).strip(), a library
\* whose output is not modelled; text is then what was handed to it.
GNoRet == [kind |-> "none", text |-> NoText, formatted |-> FALSE,
           model_used |-> None, exc |-> NoExc]
GReturned(text, formatted, model_used) ==
    [kind |-> "return", text |-> text, formatted |-> formatted,
     model_used |-> model_used, exc |-> NoExc]
GRaised(exc) == [kind |-> "raise", text |-> NoText, formatted |-> FALSE,
                 model_used |-> None, exc |-> exc]

\* A plausible slip: the `not` is missing, the model is dropped when there is
\* headroom.
GuardedModel_DroppedOnHeadroom(model, ram) ==
    IF Truthy(model) /\ CheckRamUsage(ram) THEN None ELSE model

\* A plausible slip: the model is passed on whatever the guard says.
GuardedModel_Unguarded(model, ram) == model

\* codegen.py:40-42, `if model and not check_ram_usage(): model = None`.
GuardedModel(model, ram) ==
    IF Truthy(model) /\ ~CheckRamUsage(ram) THEN None ELSE model

\* A plausible slip: the formatter's exception is not caught.
FormatPythonCode_Propagates(code, fmt) ==
    IF fmt = "ok" THEN [kind |-> "return", text |-> code, formatted |-> TRUE]
    ELSE [kind |-> "raise", text |-> NoText, formatted |-> FALSE]

\* codegen.py:28-35, format_python_code: the formatted code, or the input when
\* autopep8 raises (fmt = "raise").
FormatPythonCode(code, fmt) ==
    [kind |-> "return", text |-> code, formatted |-> fmt = "ok"]

\* codegen.py:39-43: the RAM guard, then the call of query_anythingllm.
GenerateCodeCall ==
    /\ g_pc = "call"
    /\ \E ram \in RamSamples \cup {NoRam} :
        /\ (ram = NoRam) <=> ~Truthy(g_args.model)   \* `model and not check_ram_usage()`
        /\ g_ram' = ram
        /\ q_args' = [mode |-> g_args.mode,
                      model |-> GuardedModel(g_args.model, ram),
                      workspace_config |-> g_args.workspace_config,
                      chat_model |-> g_args.chat_model,
                      agent_model |-> g_args.agent_model]
    /\ q_pc' = "call"
    /\ q_payload' = NoPayload /\ q_resp' = NoResponse /\ q_posts' = 0 /\ q_ret' = QNoRet
    /\ g_pc' = "query"
    /\ UNCHANGED <<g_args, g_ret>>
    /\ UNCHANGED <<probeVars, fetchVars, mainVars, sanVars, ramVars>>

\* codegen.py:43-50: query_anythingllm has returned or raised; a result is
\* sanitized and, for python, formatted (format_python_code, codegen.py:28-35,
\* returns its input when autopep8 raises); an exception is logged and re-raised.
\* The response object does not outlive query_anythingllm.
GenerateCodeReturn ==
    /\ g_pc = "query" /\ q_pc = "done"
    /\ \E fmt \in {"ok", "raise"} :
        LET cleaned == clean_code_output(q_ret.text, g_args.language)
            result == IF g_args.language = "python" THEN FormatPythonCode(cleaned, fmt)
                      ELSE [kind |-> "return", text |-> cleaned, formatted |-> FALSE]
        IN  \* the formatter runs for python, after a query that returned
            /\ (g_args.language /= "python" \/ q_ret.kind = "raise") => fmt = "ok"
            /\ g_ret' = IF q_ret.kind = "raise" THEN GRaised(q_ret.exc)
                        ELSE IF result.kind = "raise" THEN GRaised("FormatError")
                        ELSE GReturned(result.text, result.formatted, q_ret.model_used)
    /\ g_pc' = "done"
    /\ q_resp' = NoResponse
    /\ UNCHANGED <<g_args, g_ram, q_pc, q_args, q_payload, q_posts, q_ret>>
    /\ UNCHANGED <<probeVars, fetchVars, mainVars, sanVars, ramVars>>

GenIdle == g_pc = "idle" /\ g_args = NoGenArgs /\ g_ram = NoRam /\ g_ret = GNoRet

GenCalled == g_pc = "call" /\ g_args \in GenArgs /\ g_ram = NoRam /\ g_ret = GNoRet

NextGen == GenerateCodeCall \/ QueryAnythingLLM \/ GenerateCodeReturn

(***************************************************************************)
(* clean_code_output, called on its own                                    *)
(***************************************************************************)
MaxTextLen == 4

\* The characters of a text (see clean_code_output above).
Chars == {"F", "T", NL, " ", "#", "*", "-", "N", "x"}

\* ```tag\n interior \n```, the tag being <<"T">> or <<>>.
Fenced(tag, interior) == <<"F">> \o tag \o <<NL>> \o interior \o <<NL, "F">>

\* What a fenced block holds: one line, two lines, an indented line, a comment
\* line above a code line, a line with a trailing comment.
Interiors ==
    {<<"x">>, <<"x", NL, "x">>, <<"x", NL, " ", "x">>, <<"#", " ", "x", NL, "x">>,
     <<"x", " ", "#", " ", "x">>}

\* What follows a closing fence: nothing, a line of prose, prose on the line of
\* the fence, a line that opens with a discourse word, a blank line and prose.
TrailingProse ==
    {<<>>, <<NL, "x", " ", "x">>, <<" ", "x">>, <<NL, "N", " ", "x">>,
     <<NL, NL, "x">>}

\* One fenced block and what follows it.
OneBlockTexts ==
    {Fenced(tag, body) \o prose :
        tag \in {<<>>, <<"T">>}, body \in Interiors, prose \in TrailingProse}

\* Two fenced blocks, a line of prose between them or not.
TwoBlockTexts ==
    {Fenced(t1, <<"x">>) \o mid \o Fenced(t2, body) \o prose :
        t1 \in {<<>>, <<"T">>}, t2 \in {<<>>, <<"T">>},
        mid \in {<<NL>>, <<NL, "x", NL>>},
        body \in {<<"x", "x">>, <<"x", NL, "x">>},
        prose \in {<<>>, <<NL, "x">>}}

\* The texts clean_code_output is applied to: every text of up to MaxTextLen
\* characters, and the texts with one and with two fenced blocks.
SanTexts == SeqsUpTo(Chars, MaxTextLen) \cup OneBlockTexts \cup TwoBlockTexts

\* codegen.py:9-26, one call.
Sanitize ==
    /\ s_pc = "call"
    /\ s_out' = clean_code_output(s_text, s_language)
    /\ s_pc' = "done"
    /\ UNCHANGED <<s_text, s_language, s_again>>
    /\ UNCHANGED <<probeVars, fetchVars, queryVars, genVars, mainVars, ramVars>>

\* codegen.py:9-26, a second call, on the result of the first.
SanitizeAgain ==
    /\ s_pc = "done"
    /\ s_again' = clean_code_output(s_out, s_language)
    /\ s_pc' = "again"
    /\ UNCHANGED <<s_text, s_language, s_out>>
    /\ UNCHANGED <<probeVars, fetchVars, queryVars, genVars, mainVars, ramVars>>

SanIdle ==
    /\ s_pc = "idle" /\ s_text = <<>> /\ s_language = "python"
    /\ s_out = <<>> /\ s_again = <<>>

SanCalled ==
    /\ s_pc = "call" /\ s_text \in SanTexts /\ s_language \in GenLanguages
    /\ s_out = <<>> /\ s_again = <<>>

NextSanitize == Sanitize \/ SanitizeAgain

(***************************************************************************)
(* check_ram_usage, called on its own                                      *)
(***************************************************************************)
MaxUsedGB == 64

\* ram.used, in bytes: a whole number of GiB, one byte less, or one byte more.
RamInputs ==
    {[gb |-> g, rem |-> 0] : g \in 0..MaxUsedGB}
    \cup {[gb |-> g - 1, rem |-> GiB - 1] : g \in 1..MaxUsedGB}
    \cup {[gb |-> g, rem |-> 1] : g \in 0..MaxUsedGB}

\* ram.total, in GiB; it is only printed (utils.py:11, 14).
RamTotals == {16, 64, 128}

\* utils.py:7-15, one call.
CheckRamUsageCall ==
    /\ r_pc = "call"
    /\ r_warned' = RamWarns(r_used)
    /\ r_ret' = IF CheckRamUsage(r_used) THEN "True" ELSE "False"
    /\ r_pc' = "done"
    /\ UNCHANGED <<r_used, r_total>>
    /\ UNCHANGED <<probeVars, fetchVars, queryVars, genVars, mainVars, sanVars>>

RamIdle ==
    /\ r_pc = "idle" /\ r_used = NoRam /\ r_total = 0
    /\ r_warned = FALSE /\ r_ret = "none"

RamCalled ==
    /\ r_pc = "call" /\ r_used \in RamInputs /\ r_total \in RamTotals
    /\ r_warned = FALSE /\ r_ret = "none"

NextRam == CheckRamUsageCall

(***************************************************************************)
(* init_repo, run_tests and the CI generator, as main sees them            *)
(***************************************************************************)
Commit(msg, files) == [msg |-> msg, files |-> files]

\* The repository directory REPO_PATH as init_repo finds it: whether it is a
\* valid git repository and whether it holds __init__.py.
RepoStates == [is_repo : BOOLEAN, has_init : BOOLEAN]

\* git_utils.py:13-52, the commits init_repo makes: "Initial commit" when the
\* directory is no valid repository (it is removed and created again, which also
\* removes __init__.py), then the commit of a missing __init__.py.
InitRepoCommits(repo) ==
    (IF repo.is_repo THEN <<>> ELSE <<Commit("Initial commit", {"README.md"})>>)
    \o (IF repo.is_repo /\ repo.has_init THEN <<>>
        ELSE <<Commit("Add __init__.py for package structure", {"__init__.py"})>>)

CodeFile(language) ==
    CASE language = "python" -> "app.py"
      [] language = "html"   -> "index.html"
      [] language = "julia"  -> "app.jl"
TestFile(language) ==
    CASE language = "python" -> "tests/python/test_app.py"
      [] language = "html"   -> "tests/html/test_index.test.js"
      [] language = "julia"  -> "tests/julia/test_app.jl"
TestInitFile(language) ==
    CASE language = "python" -> "tests/python/__init__.py"
      [] language = "html"   -> "package.json"
      [] language = "julia"  -> "tests/julia/__init__.py"
Manifest(language) ==
    CASE language = "python" -> "requirements.txt"
      [] language = "html"   -> "package.json"
      [] language = "julia"  -> "Project.toml"

\* main.py:196-202
FilesToCommit(language, dataset_success) ==
    {CodeFile(language), TestInitFile(language), TestFile(language), "README.md",
     Manifest(language)}
    \cup (IF dataset_success = "True" /\ language \in {"python", "html"}
          THEN {"data.csv"} ELSE {})

(***************************************************************************)
(* main                                                                    *)
(***************************************************************************)
\* The command line (main.py:17-29) and the environment (main.py:33). The
\* --chat-model and --agent-model options are parsed and never read.
MainArgs ==
    {a \in [api_key : {None, "key"}, workspace : {"dev"}, mode : Modes,
            language : Languages, code_model : {None, "C"}, doc_model : {None, "D"},
            chat_model : {None}, agent_model : {None}] :
        a.api_key = None =>
            (a.mode = "chat" /\ a.language = "python" /\ a.code_model = None
             /\ a.doc_model = None)}

\* main.py:53-56, the two dataset URLs.
DatasetUrls == <<"u1", "u2">>

Stage(name) == m_trace' = Append(m_trace, name)

\* sys.exit(1), or an exception that leaves main: the process ends with status 1.
Exit1(pc) == m_pc' = pc /\ m_exit' = "1"

ProbeReset ==
    /\ p_pc' = "idle" /\ p_workspace' = "dev" /\ p_docs' = "none" /\ p_ws' = "none"
    /\ p_body' = NoBody /\ p_reqs' = <<>> /\ p_ret' = NoRet
FetchReset ==
    /\ f_pc' = "idle" /\ f_urls' = <<>> /\ f_retries' = DefaultRetries
    /\ f_url' = 1 /\ f_attempt' = 0 /\ f_log' = <<>> /\ f_ret' = "none"
GenReset ==
    /\ g_pc' = "idle" /\ g_args' = NoGenArgs /\ g_ram' = NoRam /\ g_ret' = GNoRet
    /\ q_pc' = "idle" /\ q_args' = NoQueryArgs /\ q_payload' = NoPayload
    /\ q_resp' = NoResponse /\ q_posts' = 0 /\ q_ret' = QNoRet

\* A plausible slip: the token is not checked.
MissingApiKey_Unchecked(api_key) == FALSE

\* main.py:35, `if not api_key`.
MissingApiKey(api_key) == ~Truthy(api_key)

\* A plausible slip: the prober's flag is not looked at.
ProbeNegative_Ignored(flag) == FALSE

\* main.py:40, `if not is_available`.
ProbeNegative(flag) == ~flag

\* main.py:31-39: chdir to the repository, read the token, call the prober.
MainStart ==
    /\ m_pc = "start"
    /\ IF ~m_repo
       THEN /\ Exit1("crashed") /\ Stage("chdir failed")
            /\ UNCHANGED probeVars
       ELSE IF MissingApiKey(m_args.api_key)
       THEN /\ Exit1("exited") /\ Stage("no api key")
            /\ UNCHANGED probeVars
       ELSE /\ m_pc' = "probe" /\ Stage("probe") /\ UNCHANGED m_exit
            /\ p_pc' = "docs" /\ p_workspace' = m_args.workspace
            /\ UNCHANGED <<p_docs, p_ws, p_body, p_reqs, p_ret>>
    /\ UNCHANGED <<m_args, m_mode, m_config, m_dataset, m_repo, m_commits, m_files, m_sent>>
    /\ UNCHANGED <<fetchVars, queryVars, genVars, sanVars, ramVars>>

\* A plausible slip: the mode is never downgraded.
EffectiveMode_NoDowngrade(mode, config) == mode

\* main.py:44-46: agent mode falls back to chat when the workspace has no
\* agent provider.
EffectiveMode(mode, config) ==
    IF mode = "agent" /\ (config.isNone \/ ~Truthy(config.agent_provider))
    THEN "chat" ELSE mode

\* main.py:39-46: the prober is back; abort when it reports no workspace,
\* downgrade agent mode when the workspace has no agent provider.
MainAfterProbe ==
    /\ m_pc = "probe" /\ p_pc = "done"
    /\ IF p_ret.kind = "raise"
       THEN /\ Exit1("crashed") /\ Stage("probe raised")
            /\ UNCHANGED <<m_mode, m_config>>
       ELSE IF ProbeNegative(p_ret.flag)
       THEN /\ Exit1("exited") /\ Stage("probe negative")
            /\ UNCHANGED <<m_mode, m_config>>
       ELSE /\ m_pc' = "init_repo" /\ Stage("probe ok") /\ UNCHANGED m_exit
            /\ m_config' = p_ret.config
            /\ m_mode' = EffectiveMode(m_mode, p_ret.config)
    /\ ProbeReset
    /\ UNCHANGED <<m_args, m_dataset, m_repo, m_commits, m_files, m_sent>>
    /\ UNCHANGED <<fetchVars, queryVars, genVars, sanVars, ramVars>>

\* main.py:49-50: initial_model_check, then init_repo, which may fail.
MainInitRepo ==
    /\ m_pc = "init_repo"
    /\ \E outcome \in {"ok", "raise"}, repo \in RepoStates :
        IF outcome = "raise"
        THEN /\ repo = [is_repo |-> TRUE, has_init |-> TRUE]
             /\ Exit1("crashed") /\ Stage("init_repo raised")
             /\ UNCHANGED m_commits
        ELSE /\ m_pc' = "dataset" /\ Stage("init_repo") /\ UNCHANGED m_exit
             /\ m_commits' = m_commits \o InitRepoCommits(repo)
    /\ UNCHANGED <<m_args, m_mode, m_config, m_dataset, m_repo, m_files, m_sent>>
    /\ UNCHANGED <<probeVars, fetchVars, queryVars, genVars, sanVars, ramVars>>

\* main.py:52-65: python and html download the dataset, julia does not.
MainDataset ==
    /\ m_pc = "dataset"
    /\ IF m_args.language \in {"python", "html"}
       THEN /\ m_pc' = "fetch" /\ Stage("fetch")
            /\ f_pc' = "loop" /\ f_urls' = DatasetUrls /\ f_retries' = DefaultRetries
            /\ UNCHANGED <<f_url, f_attempt, f_log, f_ret, m_dataset>>
       ELSE /\ m_pc' = "gen_code" /\ Stage("no dataset")
            /\ m_dataset' = "True"
            /\ UNCHANGED fetchVars
    /\ UNCHANGED <<m_args, m_mode, m_config, m_repo, m_commits, m_files, m_sent, m_exit>>
    /\ UNCHANGED <<probeVars, queryVars, genVars, sanVars, ramVars>>

\* A plausible slip: the result of the download is not looked at.
DatasetSuccess_Assumed(ret, exists) == "True"

\* main.py:58-63, dataset_success: download_dataset returned True and the
\* file is there (os.path.exists(dataset_path)).
DatasetSuccess(ret, exists) == IF ret = "True" /\ exists THEN "True" ELSE "False"

\* main.py:58-63: download_dataset is back; a download leaves data.csv behind,
\* unless the file is gone again when main looks for it.
MainAfterFetch ==
    /\ m_pc = "fetch" /\ f_pc = "done"
    /\ \E exists \in BOOLEAN :
        /\ f_ret /= "True" => ~exists
        /\ m_dataset' = DatasetSuccess(f_ret, exists)
        /\ m_files' = IF exists THEN m_files \cup {"data.csv"} ELSE m_files
        /\ Stage(IF f_ret /= "True" THEN "fetch failed"
                 ELSE IF exists THEN "fetched" ELSE "file missing")
    /\ m_pc' = "gen_code"
    /\ FetchReset
    /\ UNCHANGED <<m_args, m_mode, m_config, m_repo, m_commits, m_sent, m_exit>>
    /\ UNCHANGED <<probeVars, queryVars, genVars, sanVars, ramVars>>

\* The three generation calls: what is generated, the language and the model
\* main passes (main.py:98, 139, 176: the tests are asked with --doc-model).
GenCalls == {"code", "tests", "docs"}
GenLanguage(call) ==
    IF call = "tests" /\ m_args.language = "html" THEN "javascript" ELSE m_args.language
GenModel(call) == IF call = "code" THEN m_args.code_model ELSE m_args.doc_model

\* main.py:98, 139, 176: generate_code(prompt, api_base, workspace, api_key,
\* args.mode, language, model, workspace_config).
MainGenerate ==
    /\ m_pc \in {"gen_code", "gen_tests", "gen_docs"}
    /\ LET call == CASE m_pc = "gen_code" -> "code"
                     [] m_pc = "gen_tests" -> "tests"
                     [] m_pc = "gen_docs" -> "docs"
       IN  /\ g_args' = [mode |-> m_mode, language |-> GenLanguage(call),
                         model |-> GenModel(call), workspace_config |-> m_config,
                         chat_model |-> None, agent_model |-> None]
           /\ m_pc' = "wait_" \o call
           /\ Stage("generate " \o call)
    /\ g_pc' = "call"
    /\ UNCHANGED <<g_ram, g_ret>>
    /\ UNCHANGED <<m_args, m_mode, m_config, m_dataset, m_repo, m_commits, m_files,
                   m_sent, m_exit>>
    /\ UNCHANGED <<probeVars, fetchVars, queryVars, sanVars, ramVars>>

\* A plausible slip: the documentation is asked for right after the tests were
\* written, the test run is left out.
AfterWrite_NoTestRun(call) ==
    CASE call = "code" -> "gen_tests"
      [] call = "tests" -> "gen_docs"
      [] call = "docs" -> "ci"

\* main.py:98-193: what follows the writing of an artifact: the tests after
\* the code (139), run_tests after the tests (150), the CI workflow and the
\* commit after the documentation (182-204).
AfterWrite(call) ==
    CASE call = "code" -> "gen_tests"
      [] call = "tests" -> "run_tests"
      [] call = "docs" -> "ci"

\* A plausible slip: the handler logs the error and the run goes on.
MainExcept_LogOnly(kind, next) == next

\* main.py:207-209, `except Exception as e: logging.error(...); raise`: where
\* main goes after a call of the try block that ended as kind.
MainExcept(kind, next) == IF kind = "raise" THEN "crashed" ELSE next

\* main.py:98-102, 139-147, 176-179: generate_code is back; its exception leaves
\* main (main.py:207-209), its text is written to the artifact's file.
MainAfterGenerate ==
    /\ m_pc \in {"wait_code", "wait_tests", "wait_docs"} /\ g_pc = "done"
    /\ LET call == CASE m_pc = "wait_code" -> "code"
                     [] m_pc = "wait_tests" -> "tests"
                     [] m_pc = "wait_docs" -> "docs"
           written == CASE call = "code" -> {CodeFile(m_args.language)}
                        [] call = "tests" ->
                             {TestFile(m_args.language)}
                             \cup (IF m_args.language /= "html"
                                   THEN {TestInitFile(m_args.language)} ELSE {})
                        [] call = "docs" -> {"README.md"}
       IN  /\ m_sent' = IF q_posts > 0
                        THEN Append(m_sent, [call |-> call, payload |-> q_payload,
                                             requested |-> g_args.model,
                                             explicit |-> q_args.model,
                                             failed |-> g_ret.kind = "raise"])
                        ELSE m_sent
           /\ LET next == AfterWrite(call)
              IN  IF MainExcept(g_ret.kind, next) = "crashed"
                  THEN /\ Exit1("crashed") /\ Stage(call \o " failed")
                       /\ UNCHANGED m_files
                  ELSE /\ m_files' = m_files \cup written
                       /\ Stage("write " \o call)
                       /\ m_pc' = MainExcept(g_ret.kind, next)
                       /\ UNCHANGED m_exit
    /\ GenReset
    /\ UNCHANGED <<m_args, m_mode, m_config, m_dataset, m_repo, m_commits>>
    /\ UNCHANGED <<probeVars, fetchVars, sanVars, ramVars>>

\* main.py:150-151: run_tests catches every exception and returns text; for html
\* and julia it may or may not leave the manifest (package.json, Project.toml).
MainRunTests ==
    /\ m_pc = "run_tests"
    /\ \E manifest \in BOOLEAN :
        /\ m_args.language = "python" => ~manifest
        /\ m_files' = IF manifest THEN m_files \cup {Manifest(m_args.language)} ELSE m_files
    /\ m_pc' = "gen_docs"
    /\ Stage("run tests")
    /\ UNCHANGED <<m_args, m_mode, m_config, m_dataset, m_repo, m_commits, m_sent, m_exit>>
    /\ UNCHANGED <<probeVars, fetchVars, queryVars, genVars, sanVars, ramVars>>

\* main.py:182-193: requirements.txt for python, then the CI workflow, which
\* ci.py:58-59 commits together with what is staged.
MainCI ==
    /\ m_pc = "ci"
    /\ m_files' = m_files \cup {".github/workflows/ci.yml"}
                    \cup (IF m_args.language = "python" THEN {"requirements.txt"} ELSE {})
    /\ m_commits' = Append(m_commits,
            Commit("Add GitHub Actions CI workflow",
                   {".github/workflows/ci.yml"}
                   \cup (IF m_args.language = "python" THEN {"requirements.txt"} ELSE {})))
    /\ m_pc' = "commit"
    /\ Stage("ci")
    /\ UNCHANGED <<m_args, m_mode, m_config, m_dataset, m_repo, m_sent, m_exit>>
    /\ UNCHANGED <<probeVars, fetchVars, queryVars, genVars, sanVars, ramVars>>

\* main.py:196-206: stage the artifacts (index.add raises on a missing file)
\* and commit them.
MainCommit ==
    /\ m_pc = "commit"
    /\ IF FilesToCommit(m_args.language, m_dataset) \subseteq m_files
       THEN /\ m_commits' = Append(m_commits,
                    Commit("Add API/WebApp, tests, docs, and dataset",
                           FilesToCommit(m_args.language, m_dataset)))
            /\ m_pc' = "done" /\ m_exit' = "0"
            /\ Stage("commit")
       ELSE /\ Exit1("crashed") /\ Stage("commit failed")
            /\ UNCHANGED m_commits
    /\ UNCHANGED <<m_args, m_mode, m_config, m_dataset, m_repo, m_files, m_sent>>
    /\ UNCHANGED <<probeVars, fetchVars, queryVars, genVars, sanVars, ramVars>>

MainIdle ==
    /\ m_pc = "idle"
    /\ m_args = [api_key |-> None, workspace |-> "dev", mode |-> "chat",
                 language |-> "python", code_model |-> None, doc_model |-> None,
                 chat_model |-> None, agent_model |-> None]
    /\ m_mode = "chat" /\ m_config = NoConfig /\ m_dataset = "none"
    /\ m_repo = TRUE
    /\ m_commits = <<>> /\ m_files = {} /\ m_sent = <<>> /\ m_trace = <<>>
    /\ m_exit = "none"

MainCalled ==
    /\ m_pc = "start"
    /\ m_args \in MainArgs
    /\ m_repo \in BOOLEAN
    /\ ~m_repo => m_args.api_key = None
    /\ m_mode = m_args.mode /\ m_config = NoConfig /\ m_dataset = "none"
    /\ m_commits = <<>> /\ m_files = {} /\ m_sent = <<>> /\ m_trace = <<>>
    /\ m_exit = "none"

NextMain ==
    \/ MainStart \/ MainAfterProbe \/ MainInitRepo \/ MainDataset \/ MainAfterFetch
    \/ MainGenerate \/ MainAfterGenerate \/ MainRunTests \/ MainCI \/ MainCommit
    \/ ProbeDocs \/ ProbeWorkspaces
    \/ FetchAttempt \/ FetchNextUrl \/ FetchGiveUp
    \/ GenerateCodeCall \/ QueryAnythingLLM \/ GenerateCodeReturn

(***************************************************************************)
(* flowtest.py, the one-file copy of the pipeline: its own versions of the  *)
(* prober, the RAM guard, the sanitizer, the fetcher and the query          *)
(***************************************************************************)
\* flowtest.py:66-68, except requests.exceptions.RequestException.
FlowtestProbeExcept(exc) ==
    IF IsRequestException(exc) THEN Returned(FALSE, NoConfig) ELSE Raised(exc)

\* flowtest.py:39-68, check_api_availability for a liveness probe that ended as
\* docs and a workspaces request that ended as ws with the given body.
FlowtestCheckApiAvailability(docs, ws, body, workspace) ==
    IF RequestExc(docs) /= NoExc THEN FlowtestProbeExcept(RequestExc(docs))
    ELSE IF RequestExc(ws) /= NoExc THEN FlowtestProbeExcept(RequestExc(ws))
    ELSE IF body.kind = "not_json" THEN FlowtestProbeExcept("JSONDecodeError")
    ELSE IF body.kind = "not_object" THEN FlowtestProbeExcept("AttributeError")
    ELSE IF \E i \in 1..Len(body.workspaces) : body.workspaces[i].slug = NoKey
         THEN FlowtestProbeExcept("KeyError")
    ELSE LET found == {i \in 1..Len(body.workspaces) : body.workspaces[i].slug = workspace}
             rec == body.workspaces[Min(found)]
         IN  IF found = {} THEN Returned(FALSE, NoConfig)
             ELSE Returned(TRUE, [isNone |-> FALSE,
                                  chat_model |-> Get(rec.chatModel),
                                  agent_model |-> Get(rec.agentModel),
                                  agent_provider |-> Get(rec.agentProvider)])

FlowtestThresholdGB == 50     \* threshold = 50

\* A plausible slip: `<=` for `<` in the copy.
FlowtestCheckRamUsage_AtMost(ram) ==
    [warned |-> ram.gb > FlowtestThresholdGB
                   \/ (ram.gb = FlowtestThresholdGB /\ ram.rem > 0),
     ret |-> IF ram.gb < FlowtestThresholdGB
                   \/ (ram.gb = FlowtestThresholdGB /\ ram.rem = 0)
             THEN "True" ELSE "False"]

\* flowtest.py:70-78, check_ram_usage: whether it warns, and what it returns.
FlowtestCheckRamUsage(ram) ==
    [warned |-> ram.gb > FlowtestThresholdGB
                   \/ (ram.gb = FlowtestThresholdGB /\ ram.rem > 0),
     ret |-> IF ram.gb < FlowtestThresholdGB THEN "True" ELSE "False"]

\* flowtest.py:99, the prefixes of a dropped line ('###' is a case of '##').
FlowtestFilteredLine(line) ==
    \E p \in {<<"#", " ">>, <<"#", "#">>, <<"#", "#", "#">>, <<"*">>, <<"-">>, <<"N">>} :
        StartsWith(line, p)

\* flowtest.py:95-104, the loop over the lines.
RECURSIVE FlowtestKeepLines(_)
FlowtestKeepLines(lines) ==
    IF lines = <<>> THEN <<>>
    ELSE LET line == RStrip(Head(lines))
             rest == FlowtestKeepLines(Tail(lines))
         IN  IF line = <<>> THEN rest
             ELSE IF FlowtestFilteredLine(line) THEN rest
             ELSE IF LStrip(line) = <<>> THEN rest
             ELSE <<line>> \o rest

\* flowtest.py:86-105, clean_code_output; the two regular expressions are
\* those of codegen.py:11-12.
FlowtestCleanCodeOutput(text, language) ==
    LET code == Strip(CutFromFence(UnwrapFences(text)))
    IN  Strip(JoinLines(FlowtestKeepLines(SplitLines(code))))

\* flowtest.py:205-221, download_dataset from attempt `attempt` on URL `url`
\* on, urlretrieve ending as the answers say, one after the other; log is what
\* was done so far. ret = "none": the answers are used up before the call ends.
RECURSIVE FlowtestDownloadFrom(_, _, _, _, _, _)
FlowtestDownloadFrom(urls, retries, url, attempt, answers, log) ==
    IF url > Len(urls) THEN [log |-> log, ret |-> "False"]
    ELSE IF attempt >= retries
         THEN FlowtestDownloadFrom(urls, retries, url + 1, 0, answers, log)
    ELSE IF answers = <<>> THEN [log |-> log, ret |-> "none"]
    ELSE LET o == Head(answers)
         IN  IF o = "ok" THEN [log |-> Append(log, Try(url, o)), ret |-> "True"]
             ELSE IF IsHTTPError(o)
                  THEN FlowtestDownloadFrom(urls, retries, url, attempt + 1, Tail(answers),
                           IF attempt < retries - 1
                           THEN log \o <<Try(url, o), Sleep(url)>>
                           ELSE Append(log, Try(url, o)))
             ELSE FlowtestDownloadFrom(urls, retries, url + 1, 0, Tail(answers),
                                       Append(log, Try(url, o)))

FlowtestDownloadDataset(urls, retries, answers) ==
    FlowtestDownloadFrom(urls, retries, 1, 0, answers, <<>>)

\* flowtest.py:230-235, the payload: only the model argument can name a model.
FlowtestPayload(args) ==
    [message |-> "prompt", mode |-> args.mode,
     model |-> IF Truthy(args.model) THEN args.model ELSE NoKey]

\* flowtest.py:252-258, model_used.
FlowtestModelUsed(args, resp) ==
    LET metrics == IF resp.metrics = "object" THEN Get(resp.metricsModel) ELSE None
        config == args.workspace_config
    IN  IF Truthy(metrics) THEN metrics
        ELSE IF Truthy(Get(resp.chatModel)) THEN resp.chatModel
        ELSE IF ~config.isNone
                  /\ Truthy(IF args.mode = "agent" THEN config.agent_model
                            ELSE config.chat_model)
             THEN (IF args.mode = "agent" THEN config.agent_model ELSE config.chat_model)
        ELSE IF Truthy(args.model) THEN args.model
        ELSE "unknown"

\* flowtest.py:236-270, what query_anythingllm makes of the response.
FlowtestQueryAnythingLLM(args, resp) ==
    IF RequestExc(resp.status) /= NoExc THEN QRaised(RequestExc(resp.status))
    ELSE IF resp.json = "not_json" THEN QRaised("JSONDecodeError")
    ELSE IF resp.json = "not_object" THEN QRaised("ValueError: No valid response")
    ELSE IF Truthy(resp.error) THEN QRaised("ValueError: API error")
    ELSE IF resp.textResponse = NoKey \/ resp.textResponse = None
         THEN QRaised("ValueError: No valid response")
    ELSE IF resp.metrics = None THEN QRaised("AttributeError")
    ELSE QReturned(resp.answerText, FlowtestModelUsed(args, resp))

(***************************************************************************)
(* Specifications                                                          *)
(***************************************************************************)
\* check_api_availability alone, for every workspace and backend.
InitProbe == ProbeCalled /\ FetchIdle /\ QueryIdle /\ GenIdle /\ MainIdle
             /\ SanIdle /\ RamIdle
SpecProbe == InitProbe /\ [][NextProbe]_vars

\* download_dataset alone, for every URL list and retries up to the bounds.
InitFetch == ProbeIdle /\ FetchCalled /\ QueryIdle /\ GenIdle /\ MainIdle
             /\ SanIdle /\ RamIdle
SpecFetch == InitFetch /\ [][NextFetch]_vars

\* download_dataset alone, for a list of every length; which URL stands where
\* has no part in what the function does, so one list of each length is taken.
UrlList(n) == [i \in 1..n |-> IF i % 2 = 1 THEN "u1" ELSE "u2"]
InitFetchFair == InitFetch /\ \E n \in 0..MaxUrls : f_urls = UrlList(n)

\* download_dataset is straight-line code in one thread: urlretrieve and sleep
\* return or raise, so a call that can take a step takes it.
SpecFetchFair == InitFetchFair /\ [][NextFetch]_vars /\ WF_vars(NextFetch)

\* query_anythingllm alone, for every argument list and response.
InitQuery == ProbeIdle /\ FetchIdle /\ QueryCalled /\ GenIdle /\ MainIdle
             /\ SanIdle /\ RamIdle
SpecQuery == InitQuery /\ [][NextQuery]_vars

\* generate_code alone.
InitGen == ProbeIdle /\ FetchIdle /\ QueryIdle /\ GenCalled /\ MainIdle
           /\ SanIdle /\ RamIdle
SpecGen == InitGen /\ [][NextGen]_vars

\* clean_code_output alone, applied once and once more to its own result.
InitSanitize == ProbeIdle /\ FetchIdle /\ QueryIdle /\ GenIdle /\ MainIdle
                /\ SanCalled /\ RamIdle
SpecSanitize == InitSanitize /\ [][NextSanitize]_vars

\* check_ram_usage alone, for every memory reading of RamInputs.
InitRam == ProbeIdle /\ FetchIdle /\ QueryIdle /\ GenIdle /\ MainIdle
           /\ SanIdle /\ RamCalled
SpecRam == InitRam /\ [][NextRam]_vars

\* One run of main.
InitMain == ProbeIdle /\ FetchIdle /\ QueryIdle /\ GenIdle /\ MainCalled
            /\ SanIdle /\ RamIdle
SpecMain == InitMain /\ [][NextMain]_vars
Spec == SpecMain

\* Each of the functions flowtest.py has a copy of, called alone.
InitDuplicates == InitProbe \/ InitFetchFair \/ InitQuery \/ InitSanitize \/ InitRam
NextDuplicates == NextProbe \/ NextFetch \/ NextQuery \/ NextSanitize \/ NextRam
SpecDuplicates == InitDuplicates /\ [][NextDuplicates]_vars

(***************************************************************************)
(* Claims about query_anythingllm, checked under SpecQuery                 *)
(***************************************************************************)
\* The attribution the precedence chain of C1 prescribes for the call that is
\* in q_args and the response in q_resp.
PrescribedModelUsed ==
    LET wc == q_args.workspace_config
        default == IF q_args.mode = "agent" THEN wc.agent_model ELSE wc.chat_model
    IN  IF q_resp.metrics = "object" /\ Truthy(q_resp.metricsModel) THEN q_resp.metricsModel
        ELSE IF Truthy(q_resp.chatModel) THEN q_resp.chatModel
        ELSE IF ~wc.isNone /\ Truthy(default) THEN default
        ELSE IF Truthy(q_args.model) THEN q_args.model
        ELSE "unknown"

\* C1: for every successful query_anythingllm call, model_used is chosen by
\* strict precedence: metrics.model if present and non-empty, else chatModel,
\* else the workspace_config default of the mode, else the explicit model, else
\* "unknown"; a workspace default outranks the explicit model and metrics.model
\* outranks everything.
C1_ModelUsedPrecedence ==
    q_ret.kind = "return" =>
        /\ q_ret.model_used = PrescribedModelUsed
        /\ (q_resp.metrics = "object" /\ Truthy(q_resp.metricsModel))
               => q_ret.model_used = q_resp.metricsModel
        /\ ( /\ ~(q_resp.metrics = "object" /\ Truthy(q_resp.metricsModel))
             /\ ~Truthy(q_resp.chatModel)
             /\ ~q_args.workspace_config.isNone
             /\ Truthy(q_args.workspace_config.chat_model)
             /\ q_args.mode = "chat" )
               => q_ret.model_used = q_args.workspace_config.chat_model

\* A successful chat-mode call whose response names no model, with both a
\* workspace default and an explicit model: the default is reported.
C1_Witness ==
    /\ q_ret.kind = "return"
    /\ q_resp.metrics = NoKey /\ q_resp.chatModel = NoKey
    /\ q_args.mode = "chat" /\ q_args.model = "C"
    /\ ~q_args.workspace_config.isNone
    /\ q_args.workspace_config.chat_model = "B"
    /\ q_ret.model_used = "B"

ReadArray == IF p_ws = "ok" /\ p_body.kind = "object" THEN p_body.workspaces ELSE <<>>
MatchingRecords == {i \in 1..Len(ReadArray) : ReadArray[i].slug = p_workspace}
FirstMatchingRecord == ReadArray[CHOOSE i \in MatchingRecords : \A j \in MatchingRecords : i <= j]

\* C6: check_api_availability returns (True, config) if and only if the liveness
\* check passed and the workspace is the slug of some record of the workspaces
\* array, config being the chatModel, agentModel and agentProvider of the first
\* such record (None where absent); otherwise it returns (False, None).
C6_ProbeResult ==
    p_pc = "done" =>
        IF p_docs = "ok" /\ MatchingRecords /= {}
        THEN p_ret = Returned(TRUE,
                 [isNone |-> FALSE,
                  chat_model |-> Get(FirstMatchingRecord.chatModel),
                  agent_model |-> Get(FirstMatchingRecord.agentModel),
                  agent_provider |-> Get(FirstMatchingRecord.agentProvider)])
        ELSE p_ret = Returned(FALSE, NoConfig)

TriesOn(i) == {k \in 1..Len(f_log) : f_log[k].ev = "try" /\ f_log[k].url = i}
Tries == {k \in 1..Len(f_log) : f_log[k].ev = "try"}
Sleeps == {k \in 1..Len(f_log) : f_log[k].ev = "sleep"}

\* C8: with two candidate URLs, the first always answering 404 and the second
\* succeeding on its first attempt, download_dataset returns True having made
\* exactly 1 attempt on the first URL, without retry or sleep.
C8_FallbackAfterOne404 ==
    ( /\ f_pc = "done" /\ Len(f_urls) = 2 /\ f_urls[1] /= f_urls[2]
      /\ f_retries = DefaultRetries
      /\ TriesOn(1) /= {}
      /\ \A k \in TriesOn(1) : f_log[k].outcome = "http_404"
      /\ TriesOn(2) /= {}
      /\ \A k \in TriesOn(2) : f_log[k].outcome = "ok" )
    => /\ f_ret = "True"
       /\ Cardinality(TriesOn(1)) = 1
       /\ Sleeps = {}

\* C9: with one candidate URL whose every attempt times out and retries = 3,
\* download_dataset makes exactly 3 attempts, sleeps between consecutive
\* attempts, and returns False.
C9_ExhaustionOnTimeouts ==
    ( /\ f_pc = "done" /\ Len(f_urls) = 1 /\ f_retries = DefaultRetries
      /\ Tries /= {}
      /\ \A k \in Tries : f_log[k].outcome = "timeout" )
    => /\ f_ret = "False"
       /\ Cardinality(Tries) = 3
       /\ Cardinality(Sleeps) = 2

\* C10: download_dataset tries the candidate URLs strictly in list order, stops
\* at the first successful attempt and makes no attempt after it; it returns
\* True if and only if some attempt succeeded, False otherwise (also for an
\* empty candidate list).
C10_FetchOrderAndResult ==
    /\ \A j, k \in Tries : j < k => f_log[j].url <= f_log[k].url
    /\ \A k \in Tries : f_log[k].url \in 1..Len(f_urls)
    /\ \A k \in Tries : f_log[k].outcome = "ok" => k = Len(f_log) /\ f_pc = "done"
    /\ f_pc = "done" =>
          /\ f_ret \in {"True", "False"}
          /\ f_ret = "True" <=> \E k \in Tries : f_log[k].outcome = "ok"
          /\ f_urls = <<>> => f_ret = "False"
          /\ (f_ret = "False" /\ f_retries > 0) => \A i \in 1..Len(f_urls) : TriesOn(i) /= {}

\* A download that failed on the first URL and succeeded on the second.
C10_Witness ==
    /\ f_pc = "done" /\ f_ret = "True"
    /\ TriesOn(1) /= {}
    /\ \E k \in TriesOn(2) : f_log[k].outcome = "ok"

(***************************************************************************)
(* Claims about the pipeline, checked under SpecMain                       *)
(***************************************************************************)
\* The model field C2 prescribes for a request sent in mode with the explicit
\* model that reached query_anythingllm, given the prober's WorkspaceConfig.
PrescribedModelField(explicit, mode, config) ==
    IF Truthy(explicit) THEN explicit
    ELSE IF mode = "chat" /\ ~config.isNone /\ Truthy(config.chat_model)
         THEN config.chat_model
    ELSE IF mode = "agent" /\ ~config.isNone /\ Truthy(config.agent_model)
         THEN config.agent_model
    ELSE NoKey

\* C2: the model field of every generation request main sends is the explicit
\* model if given, else the workspace_config.chat_model (chat mode) or
\* agent_model (agent mode) the prober returned, and is omitted only when none
\* of these is available.
C2_OutgoingModelField ==
    \A i \in 1..Len(m_sent) :
        m_sent[i].payload.model =
            PrescribedModelField(m_sent[i].explicit, m_sent[i].payload.mode, m_config)

\* The generation calls that failed, as positions of m_sent.
FailedCalls == {i \in 1..Len(m_sent) : m_sent[i].failed}
BootstrapMessages == {"Initial commit", "Add __init__.py for package structure"}

\* What C4 says apart from the commits: one POST per call and no retry, the
\* calls in the order code, tests, docs, each at most once; a failure
\* propagates through generate_code and main, is the last generation call of
\* the run, and the process ends with status 1.
GenerationFailureIsFatal ==
    /\ q_posts <= 1
    /\ g_pc = "done" => q_posts = 1
    /\ \A i \in 1..Len(m_sent) : m_sent[i].call = <<"code", "tests", "docs">>[i]
    /\ Len(m_sent) <= 3
    /\ (g_pc = "done" /\ q_ret.kind = "raise") => g_ret = GRaised(q_ret.exc)
    /\ \A i \in FailedCalls :
          /\ i = Len(m_sent)
          /\ m_pc = "crashed" /\ m_exit = "1"
          /\ g_pc = "idle" /\ q_pc = "idle"
          /\ m_trace[Len(m_trace)] = m_sent[i].call \o " failed"

\* C4 as stated: a generation call sends exactly one POST and is never
\* retried; when one of the three generation calls fails, the error
\* propagates, no later generation call is made, nothing is committed to the
\* repository and the process ends with a non-zero status.
C4_NothingCommitted ==
    /\ GenerationFailureIsFatal
    /\ FailedCalls /= {} => m_commits = <<>>

\* C4, amended: as above, but what the repository holds after a failed
\* generation call is at most the commits init_repo made before the first
\* generation call; the CI commit and the commit of the artifacts are never
\* made.
C4_NoCommitAfterFailure ==
    /\ GenerationFailureIsFatal
    /\ FailedCalls /= {} =>
          /\ Len(m_commits) <= 2
          /\ \A k \in 1..Len(m_commits) : m_commits[k].msg \in BootstrapMessages

\* The tests call failed after the code call succeeded, in a directory that
\* init_repo had to create: two bootstrap commits, status 1.
C4_Witness ==
    /\ Len(m_sent) = 2 /\ ~m_sent[1].failed /\ m_sent[2].failed
    /\ m_pc = "crashed" /\ m_exit = "1"
    /\ Len(m_commits) = 2

\* The attempts that failed with an exception that is no HTTPError.
NonHttpFailures == {k \in Tries : f_log[k].outcome /= "ok" /\ ~IsHTTPError(f_log[k].outcome)}

\* C11: after an attempt that failed with an exception that is not an
\* HTTPError, download_dataset makes no further attempt on that URL whatever
\* is left of the retry budget, does not sleep, and goes on to the next
\* candidate URL; the exception never reaches the caller.
C11_NonHttpFailureAbandonsUrl ==
    /\ \A k \in NonHttpFailures :
          /\ \A j \in TriesOn(f_log[k].url) : j <= k
          /\ k < Len(f_log) => f_log[k + 1] = Try(f_log[k].url + 1, f_log[k + 1].outcome)
          /\ (f_pc = "done" /\ f_log[k].url < Len(f_urls)) => k < Len(f_log)
          /\ (f_pc = "done" /\ f_log[k].url = Len(f_urls)) => (k = Len(f_log) /\ f_ret = "False")
    /\ f_pc = "done" => f_ret \in {"True", "False"}

\* A timeout on the first attempt of the first URL with retries = 3: the
\* second URL is tried next and the call returns.
C11_Witness ==
    /\ f_pc = "done" /\ f_retries = DefaultRetries /\ Len(f_urls) = 2
    /\ Len(f_log) >= 2
    /\ f_log[1] = Try(1, "timeout")
    /\ f_log[2].ev = "try" /\ f_log[2].url = 2

(***************************************************************************)
(* Claims about clean_code_output, checked under SpecSanitize              *)
(***************************************************************************)
\* C12: sanitizer idempotence: for any text x and language L,
\* clean_code_output(clean_code_output(x, L), L) = clean_code_output(x, L).
C12_SanitizerIdempotent ==
    s_pc = "again" => s_again = s_out

\* The interiors none of whose lines the line filter drops.
DroppedPrefixes == {<<"#", " ">>, <<"#", "#">>, <<"*">>, <<"-">>, <<"N">>}
PlainInteriors ==
    {b \in Interiors :
        \A i \in 1..Len(SplitLines(b)) :
            \A p \in DroppedPrefixes : ~StartsWith(SplitLines(b)[i], p)}

\* C13: for a text that is one python-tagged fenced block with interior FOO
\* followed by trailing prose, clean_code_output returns exactly FOO, whatever
\* the trailing prose is.
C13_FenceExtraction ==
    \A body \in PlainInteriors, prose \in TrailingProse \ {<<>>} :
        (s_pc = "done" /\ s_text = Fenced(<<"T">>, body) \o prose) => s_out = body

\* The text before the second opening fence of a text with two fenced blocks:
\* the first block's two fences are the first two, the third opens the second.
FencePositions(s) == {j \in 1..Len(s) : s[j] = "F"}
BeforeSecondBlock(s) ==
    LET third == CHOOSE j \in FencePositions(s) :
                     Cardinality({i \in FencePositions(s) : i < j}) = 2
    IN  SubSeq(s, 1, third - 1)

\* C14: when the text holds more than one fenced block, clean_code_output
\* keeps the interior of the first block only and discards everything from
\* the second opening fence onward, the interior of the second block included.
C14_OnlyFirstBlockKept ==
    (s_pc = "done" /\ s_text \in TwoBlockTexts)
        => s_out = clean_code_output(BeforeSecondBlock(s_text), s_language)

\* The lines of the text after fence handling (codegen.py:11-14).
LinesAfterFences == SplitLines(Strip(CutFromFence(UnwrapFences(s_text))))
Nth(S, k) == CHOOSE i \in S : Cardinality({j \in S : j < i}) = k - 1
HasDroppedPrefix(line) == \E p \in DroppedPrefixes : StartsWith(line, p)

\* C15 as stated: a line is dropped if and only if it is blank or starts with
\* one of the markers or discourse words; every other line is kept, in order,
\* unchanged apart from trailing whitespace.
C15_LineFilterAsStated ==
    s_pc = "done" =>
        LET lines == LinesAfterFences
            kept == {i \in 1..Len(lines) :
                        ~(Strip(lines[i]) = <<>> \/ HasDroppedPrefix(lines[i]))}
            out == SplitLines(s_out)
        IN  /\ Len(out) = Cardinality(kept)
            /\ \A k \in 1..Len(out) : out[k] = RStrip(lines[Nth(kept, k)])

\* C15, amended: the prefixes are looked for in the line without its trailing
\* whitespace (a line "# " followed by nothing is kept as "#"), and the first
\* kept line also loses its leading whitespace, the joined text being
\* stripped; otherwise as stated.
C15_LineFilter ==
    s_pc = "done" =>
        LET lines == LinesAfterFences
            kept == {i \in 1..Len(lines) :
                        ~(RStrip(lines[i]) = <<>> \/ HasDroppedPrefix(RStrip(lines[i])))}
            out == SplitLines(s_out)
        IN  /\ Len(out) = Cardinality(kept)
            /\ \A k \in 1..Len(out) :
                  out[k] = IF k = 1 THEN Strip(lines[Nth(kept, k)])
                           ELSE RStrip(lines[Nth(kept, k)])

\* A fenced block whose first line is a heading and whose second line is code:
\* the heading is dropped, the code line is the result.
C15_Witness ==
    /\ s_pc = "done"
    /\ s_text = Fenced(<<"T">>, <<"#", " ", "x", NL, "x">>)
    /\ s_out = <<"x">>

(***************************************************************************)
(* Claims about check_ram_usage, checked under SpecRam                     *)
(***************************************************************************)
\* a < b for byte counts written gb * GiB + rem with 0 <= rem < GiB.
BytesLess(a, b) == a.gb < b.gb \/ (a.gb = b.gb /\ a.rem < b.rem)
ThresholdBytes == [gb |-> RamThresholdGB, rem |-> 0]

\* C16: check_ram_usage returns False when used memory equals the 50 GB
\* threshold and True when it is one byte below; in general it returns True
\* exactly when used < threshold, whatever the total memory is.
C16_RamGuardBoundary ==
    r_pc = "done" =>
        /\ r_ret \in {"True", "False"}
        /\ r_ret = "True" <=> BytesLess(r_used, ThresholdBytes)
        /\ r_used = ThresholdBytes => r_ret = "False"
        /\ r_used = [gb |-> RamThresholdGB - 1, rem |-> GiB - 1] => r_ret = "True"

\* Used memory is exactly the threshold on a machine with 64 GiB: False.
C16_Witness ==
    /\ r_pc = "done" /\ r_used = ThresholdBytes /\ r_total = 64
    /\ r_ret = "False"

(***************************************************************************)
(* Claims about generate_code, checked under SpecGen                       *)
(***************************************************************************)
\* The guard of the call in progress reported headroom.
Headroom == g_ram /= NoRam /\ BytesLess(g_ram, ThresholdBytes)

\* C17: the explicit model is in the outgoing request if and only if it was
\* supplied and the RAM guard reports headroom; without headroom it is dropped
\* silently and the request is still sent, no error being raised; the guard is
\* sampled only when an explicit model was supplied.
C17_GuardDropsModel ==
    /\ g_pc \in {"query", "done"} => (g_ram /= NoRam <=> Truthy(g_args.model))
    /\ (g_pc \in {"query", "done"} /\ q_pc = "done") =>
          /\ q_posts = 1
          /\ q_payload.model /= NoKey <=> (Truthy(g_args.model) /\ Headroom)
          /\ q_payload.model /= NoKey => q_payload.model = g_args.model
    /\ g_pc = "done" => (g_ret.kind = "raise" <=> q_ret.kind = "raise")

\* An explicit model with used memory exactly at the threshold: the request
\* went out without a model field and generate_code returned.
C17_Witness ==
    /\ g_pc = "done" /\ g_args.model = "C" /\ g_ram = ThresholdBytes
    /\ q_posts = 1 /\ q_payload.model = NoKey
    /\ g_ret.kind = "return"

\* C18: format_python_code never raises: when the formatter fails it returns
\* its input, and generate_code returns that unformatted sanitized text; the
\* formatter is applied only when the language is python.
C18_FormatterNeverGates ==
    (g_pc = "done" /\ q_ret.kind = "return") =>
        /\ g_ret.kind = "return"
        /\ g_ret.model_used = q_ret.model_used
        /\ g_ret.formatted => g_args.language = "python"
        /\ ~g_ret.formatted => g_ret.text = clean_code_output(q_ret.text, g_args.language)

\* A python call whose formatter failed: the sanitized text is the result.
C18_Witness ==
    /\ g_pc = "done" /\ g_args.language = "python"
    /\ q_ret.kind = "return"
    /\ g_ret.kind = "return" /\ ~g_ret.formatted
    /\ g_ret.text = clean_code_output(q_ret.text, "python")

(***************************************************************************)
(* Claims about the start of main, checked under SpecMain                  *)
(***************************************************************************)
\* No request of any kind has been sent or is being prepared.
NoNetworkCall ==
    /\ ProbeIdle /\ FetchIdle /\ QueryIdle /\ GenIdle
    /\ m_sent = <<>> /\ m_dataset = "none" /\ m_config = NoConfig

\* C19: when the bearer token is absent from the environment, main ends with
\* a non-zero status before any network call: no liveness probe, no workspaces
\* request, no dataset download and no generation request occur in the run.
C19_NoTokenNoNetwork ==
    ~Truthy(m_args.api_key) =>
        /\ NoNetworkCall
        /\ m_commits = <<>> /\ m_files = {}
        /\ m_pc \in {"start", "exited", "crashed"}
        /\ m_pc /= "start" => m_exit = "1"
        /\ m_trace \in {<<>>, <<"no api key">>, <<"chdir failed">>}

\* The run without a token has ended with status 1 at the token check.
C19_Witness ==
    /\ m_args.api_key = None /\ m_pc = "exited" /\ m_exit = "1"
    /\ m_trace = <<"no api key">>
    /\ NoNetworkCall

\* C20: when the prober returns a negative signal, main aborts the run with a
\* non-zero status before the repository is initialised, before any dataset
\* download and before any generation request; none of these steps happens in
\* a run whose probe was negative.
C20_NegativeProbeAborts ==
    /\ (\E i \in 1..Len(m_trace) : m_trace[i] = "probe negative") =>
          /\ m_trace = <<"probe", "probe negative">>
          /\ m_pc = "exited" /\ m_exit = "1"
    /\ (m_pc = "probe" /\ p_pc = "done") => m_trace = <<"probe">>
    /\ (m_config.isNone \/ m_pc \in {"start", "probe", "exited"}) =>
          /\ m_pc \in {"start", "probe", "exited", "crashed"}
          /\ m_commits = <<>> /\ m_files = {} /\ m_sent = <<>> /\ m_dataset = "none"
          /\ FetchIdle /\ QueryIdle /\ GenIdle
          /\ \A i \in 1..Len(m_trace) :
                m_trace[i] \in {"probe", "probe negative", "probe raised",
                                "no api key", "chdir failed"}

\* The prober returned (False, None) and the run ended with status 1, nothing
\* else having happened.
C20_Witness ==
    /\ m_trace = <<"probe", "probe negative">>
    /\ m_pc = "exited" /\ m_exit = "1"
    /\ m_commits = <<>> /\ m_sent = <<>> /\ FetchIdle /\ GenIdle

(***************************************************************************)
(* Claims about the stages of main, checked under SpecMain                 *)
(***************************************************************************)
\* The mode of every generation request of the run, sent or being sent.
RequestModes ==
    {m_sent[i].payload.mode : i \in 1..Len(m_sent)}
    \cup (IF q_pc = "done" THEN {q_payload.mode} ELSE {})

\* C21: when the requested mode is agent and the WorkspaceConfig has no
\* agent_provider, main downgrades the mode to chat before the first
\* generation call, so no generation request of the run has mode agent; all
\* three generation requests of a run carry the same mode.
C21_ModeDowngrade ==
    /\ Cardinality(RequestModes) <= 1
    /\ (~m_config.isNone /\ ~Truthy(m_config.agent_provider)) => "agent" \notin RequestModes
    /\ (~m_config.isNone /\ Truthy(m_config.agent_provider)) => RequestModes \subseteq {m_args.mode}

\* Agent mode was asked for, the workspace has no agent provider, and the
\* three requests of the run went out in chat mode.
C21_Witness ==
    /\ m_args.mode = "agent"
    /\ ~m_config.isNone /\ m_config.agent_provider = None
    /\ Len(m_sent) = 3
    /\ \A i \in 1..3 : m_sent[i].payload.mode = "chat"

\* The stages of the run that were a dataset fetch without a dataset.
FailedFetches == {i \in 1..Len(m_trace) : m_trace[i] \in {"fetch failed", "file missing"}}
LastCommit == m_commits[Len(m_commits)]

\* C22: a failed dataset fetch never aborts the run: after download_dataset
\* returned False main goes on to the three generation calls and the commit;
\* data.csv is in the committed file list only if the language is python or
\* html and the fetch succeeded with the destination file present.
C22_FetchFailureNotFatal ==
    /\ \A i \in FailedFetches :
          /\ m_dataset = "False"
          /\ IF i = Len(m_trace) THEN m_pc = "gen_code" /\ m_exit = "none"
             ELSE m_trace[i + 1] = "generate code"
          /\ m_pc = "crashed" =>
                m_trace[Len(m_trace)] \in {"code failed", "tests failed", "docs failed",
                                           "commit failed"}
          /\ m_pc = "done" => (Len(m_sent) = 3 /\ m_exit = "0")
    /\ (m_pc = "fetch" /\ f_pc = "done" /\ f_ret = "False") => m_exit = "none"
    /\ (m_dataset = "True" /\ m_args.language \in {"python", "html"}) =>
          \E i \in 1..Len(m_trace) : m_trace[i] = "fetched"
    /\ (m_pc = "done" /\ "data.csv" \in LastCommit.files) =>
          /\ m_args.language \in {"python", "html"}
          /\ \E i \in 1..Len(m_trace) : m_trace[i] = "fetched"

\* A python run whose download failed and which ended with the commit, after
\* three generation requests; data.csv is not among the committed files.
C22_Witness ==
    /\ m_pc = "done" /\ m_exit = "0" /\ m_args.language = "python"
    /\ FailedFetches /= {} /\ m_dataset = "False"
    /\ Len(m_sent) = 3
    /\ LastCommit.msg = "Add API/WebApp, tests, docs, and dataset"
    /\ "data.csv" \notin LastCommit.files

\* The response names no model, and the workspace has no default for the mode.
NothingToAttribute ==
    /\ ~(q_resp.metrics = "object" /\ Truthy(q_resp.metricsModel))
    /\ ~Truthy(q_resp.chatModel)
    /\ \/ q_args.workspace_config.isNone
       \/ ~Truthy(ModeDefault(q_args.workspace_config, q_args.mode))

\* C23: every result of query_anythingllm has a non-empty model_used, and it
\* is "unknown" exactly when the response has no metrics.model and no
\* chatModel, the workspace_config has no default for the mode and no explicit
\* model reached the request (an explicit model given is the one requested).
C23_ModelUsedNeverEmpty ==
    q_ret.kind = "return" =>
        /\ Truthy(q_ret.model_used)
        /\ Truthy(q_args.model) => q_payload.model = q_args.model
        /\ q_ret.model_used = "unknown" <=> (NothingToAttribute /\ ~Truthy(q_args.model))

\* A successful call with nothing to attribute the answer to, the empty string
\* for explicit model; the request went out with the chat_model argument.
C23_Witness ==
    /\ q_ret.kind = "return" /\ q_ret.model_used = "unknown"
    /\ q_args.model = "" /\ q_payload.model = "X"
    /\ q_resp.metrics = "object" /\ q_resp.metricsModel = "" /\ q_resp.chatModel = ""
    /\ ~q_args.workspace_config.isNone /\ q_args.workspace_config.chat_model = ""

\* The place of a stage in the order of a run; a stage that ends the run early
\* has the place of the stage it replaces.
StagePlace(s) ==
    CASE s \in {"probe", "no api key", "chdir failed"} -> 1
      [] s \in {"probe ok", "probe negative", "probe raised"} -> 2
      [] s \in {"init_repo", "init_repo raised"} -> 3
      [] s = "fetch" -> 4
      [] s \in {"fetched", "fetch failed", "file missing", "no dataset"} -> 5
      [] s = "generate code" -> 6
      [] s \in {"write code", "code failed"} -> 7
      [] s = "generate tests" -> 8
      [] s \in {"write tests", "tests failed"} -> 9
      [] s = "run tests" -> 10
      [] s = "generate docs" -> 11
      [] s \in {"write docs", "docs failed"} -> 12
      [] s = "ci" -> 13
      [] s \in {"commit", "commit failed"} -> 14
      [] OTHER -> 0
FinalStages ==
    {"no api key", "chdir failed", "probe negative", "probe raised", "init_repo raised",
     "code failed", "tests failed", "docs failed", "commit", "commit failed"}
StagesBefore(i) == {m_trace[j] : j \in 1..(i - 1)}
Generations == {i \in 1..Len(m_trace) :
                  m_trace[i] \in {"generate code", "generate tests", "generate docs"}}

\* C24: the stages of a run happen one after another in the order probe,
\* optional dataset fetch, generation and writing of the code, generation and
\* writing of the tests, test execution, generation and writing of the
\* documentation, commit; a component works only during its own stage; a run
\* that reaches the commit called the generation client exactly three times,
\* the tests are run only after the test artifact was written and the final
\* commit is made only after all three artifacts were written.
C24_StageOrder ==
    /\ \A i \in 1..Len(m_trace) :
          /\ StagePlace(m_trace[i]) >= 1
          /\ i = 1 => StagePlace(m_trace[i]) = 1
          /\ i > 1 =>
                /\ m_trace[i - 1] \notin FinalStages
                /\ \/ StagePlace(m_trace[i]) = StagePlace(m_trace[i - 1]) + 1
                   \/ m_trace[i] = "no dataset" /\ m_trace[i - 1] = "init_repo"
          /\ m_trace[i] = "run tests" => "write tests" \in StagesBefore(i)
          /\ m_trace[i] = "commit" =>
                /\ {"write code", "write tests", "write docs", "run tests"}
                      \subseteq StagesBefore(i)
                /\ {CodeFile(m_args.language), TestFile(m_args.language), "README.md"}
                      \subseteq m_files
                /\ Cardinality(Generations) = 3
                /\ Len(m_sent) = 3
    /\ p_pc /= "idle" => m_pc \in {"probe"}
    /\ f_pc /= "idle" => m_pc = "fetch"
    /\ (g_pc /= "idle" \/ q_pc /= "idle") => m_pc \in {"wait_code", "wait_tests", "wait_docs"}
    /\ m_pc = "done" => m_trace[Len(m_trace)] = "commit"

\* A run of every stage, the dataset fetch included, that ended with the commit.
C24_Witness ==
    /\ m_pc = "done" /\ Len(m_trace) = 14
    /\ m_trace[4] = "fetch" /\ m_trace[5] = "fetched"
    /\ m_trace[9] = "write tests" /\ m_trace[10] = "run tests"
    /\ m_trace[14] = "commit"

\* download_dataset is through with URL i.
UrlFinished(i) == i \in 1..Len(f_urls) /\ (f_pc = "done" \/ f_url > i)
SleepsOn(i) == {k \in Sleeps : f_log[k].url = i}

C25_RetriesAndSleeps ==
    /\ \A i \in 1..Len(f_urls) :
          (UrlFinished(i) /\ TriesOn(i) /= {}
             /\ \A k \in TriesOn(i) : IsHTTPError(f_log[k].outcome))
          => /\ Cardinality(TriesOn(i)) = f_retries
             /\ Cardinality(SleepsOn(i)) = f_retries - 1
    /\ \A k \in Sleeps :
          /\ k > 1 /\ f_log[k - 1].ev = "try" /\ f_log[k - 1].url = f_log[k].url
          /\ IsHTTPError(f_log[k - 1].outcome)
          /\ IF k < Len(f_log)
             THEN f_log[k + 1].ev = "try" /\ f_log[k + 1].url = f_log[k].url
             ELSE f_pc = "loop" /\ f_url = f_log[k].url /\ f_attempt < f_retries
    /\ Cardinality(Tries) <= Len(f_urls) * f_retries

\* C25: a candidate URL whose every attempt fails with an HTTPError (any
\* status) gets exactly `retries` attempts and `retries - 1` sleeps, each sleep
\* between two consecutive attempts on that URL, none after the last attempt or
\* before the next URL; a call makes at most len(dataset_urls) * retries
\* attempts and always terminates.
C25_HttpErrorRetries == []C25_RetriesAndSleeps /\ <>(f_pc = "done")

\* Two URLs that answered every attempt with an HTTP error, a 404 among them:
\* three attempts and two sleeps each, and False at the end.
C25_Witness ==
    /\ f_pc = "done" /\ f_ret = "False" /\ Len(f_urls) = 2 /\ f_retries = 3
    /\ \A k \in Tries : IsHTTPError(f_log[k].outcome)
    /\ \E k \in TriesOn(1) : f_log[k].outcome = "http_404"
    /\ Cardinality(TriesOn(1)) = 3 /\ Cardinality(TriesOn(2)) = 3
    /\ Cardinality(SleepsOn(1)) = 2 /\ Cardinality(SleepsOn(2)) = 2

\* C26: check_api_availability never raises for a 2xx response to the
\* workspaces request, whatever its body: the call returns (False, None) or a
\* normal result, no exception reaches main.
C26_ProbeNeverRaisesOn2xx ==
    (p_pc = "done" /\ p_docs = "ok" /\ p_ws = "ok") => p_ret.kind = "return"

\* C27: check_ram_usage logs its high-usage warning in exactly the calls in
\* which it returns False, also when used memory equals the threshold.
C27_WarnsIffNoHeadroom ==
    r_pc = "done" => (r_warned <=> r_ret = "False")

\* C28: every line of clean_code_output's result, the first included, is
\* non-blank and starts with no filtered prefix; the final trim of the joined
\* text exposes no prefix that indentation had hidden from the line filter.
C28_NoFilteredLineInResult ==
    s_pc = "done" =>
        \A i \in 1..Len(SplitLines(s_out)) :
            /\ Strip(SplitLines(s_out)[i]) /= <<>>
            /\ ~HasDroppedPrefix(SplitLines(s_out)[i])

(***************************************************************************)
(* Claims about the copies in flowtest.py, checked under SpecDuplicates     *)
(***************************************************************************)
\* What urlretrieve answered in the call, attempt after attempt.
RECURSIVE AnswersOf(_)
AnswersOf(log) ==
    IF log = <<>> THEN <<>>
    ELSE IF Head(log).ev = "try" THEN <<Head(log).outcome>> \o AnswersOf(Tail(log))
    ELSE AnswersOf(Tail(log))

\* C29: for the same inputs and the same backend and download behaviour,
\* flowtest.py's check_api_availability, download_dataset, clean_code_output
\* and check_ram_usage return what the aix package versions return, and
\* flowtest.py's query_anythingllm sends the same request and returns the same
\* result as aix.api.query_anythingllm called without chat_model and
\* agent_model.
C29_DuplicatesAgree ==
    /\ p_pc = "done" =>
          p_ret = FlowtestCheckApiAvailability(p_docs, p_ws, p_body, p_workspace)
    /\ f_pc = "done" =>
          /\ FlowtestDownloadDataset(f_urls, f_retries, AnswersOf(f_log)).ret = f_ret
          /\ FlowtestDownloadDataset(f_urls, f_retries, AnswersOf(f_log)).log = f_log
    /\ s_pc \in {"done", "again"} => s_out = FlowtestCleanCodeOutput(s_text, s_language)
    /\ r_pc = "done" =>
          /\ FlowtestCheckRamUsage(r_used).ret = r_ret
          /\ FlowtestCheckRamUsage(r_used).warned = r_warned
    /\ (q_pc = "done" /\ q_args.chat_model = None /\ q_args.agent_model = None) =>
          /\ q_payload = FlowtestPayload(q_args)
          /\ q_ret = FlowtestQueryAnythingLLM(q_args, q_resp)

\* A query without chat_model and agent_model that asked for model "C" and
\* got an answer naming no model, in a workspace without defaults.
C29_Witness ==
    /\ q_pc = "done" /\ q_args.chat_model = None /\ q_args.agent_model = None
    /\ q_args.model = "C" /\ q_payload.model = "C"
    /\ q_ret.kind = "return" /\ q_ret.model_used = "C"

(***************************************************************************)
(* Attribution after the RAM guard, checked under SpecGen                  *)
(***************************************************************************)
\* C30: when generate_code is called with an explicit model and the RAM guard
\* reports no headroom, the dropped model is lost for attribution too: for a
\* response without metrics.model and chatModel and a workspace_config without
\* default for the mode, model_used is "unknown", never the requested model.
C30_DroppedModelNotAttributed ==
    /\ ( /\ g_pc = "query" /\ q_pc = "done" /\ q_ret.kind = "return"
         /\ Truthy(g_args.model) /\ ~Headroom
         /\ NothingToAttribute )
       => /\ q_args.model = None
          /\ q_ret.model_used = "unknown"
          /\ q_ret.model_used /= g_args.model
    /\ ( /\ g_pc = "done" /\ g_ret.kind = "return"
         /\ Truthy(g_args.model) /\ ~Headroom
         /\ q_args.workspace_config.isNone )
       => g_ret.model_used \notin {g_args.model, None}
    /\ (g_pc = "done" /\ g_ret.kind = "return") => g_ret.model_used = q_ret.model_used

\* Model "C" was asked for with used memory one byte over the threshold and no
\* workspace configuration; the answer names no model: "unknown" is returned.
C30_Witness ==
    /\ g_pc = "done" /\ g_args.model = "C" /\ g_args.workspace_config.isNone
    /\ g_ram = [gb |-> RamThresholdGB, rem |-> 1]
    /\ g_ret.kind = "return" /\ g_ret.model_used = "unknown"

====
